---- MODULE Spec2Model ----
(***************************************************************************)
(* Model of BusinessContactScraper (src/main.py): the contact-page crawler *)
(* extract_emails_from_website, the places search search_businesses with   *)
(* get_place_details, and the coordinator scrape_business_contacts.        *)
(*                                                                         *)
(* Strings are sequences of tokens.  A token is a piece of text that holds *)
(* none of the separators the code splits on ('@', '?', '://', 'mailto:'), *)
(* which are tokens of their own.  Every HTTP exchange is one step; what   *)
(* the remote side answers is drawn from a small set at that step.         *)
(* A Python list whose order the code leaves to a set (list(emails)) is    *)
(* modelled as the set of its elements.                                    *)
(***************************************************************************)
EXTENDS Integers, Sequences, FiniteSets, TLC

VARIABLES
    entry,            \* which method the caller invoked
    \* ---- scrape_business_contacts
    cpc,              \* position of the coordinator
    business_types,   \* argument: the list of query terms
    max_results,      \* argument
    ti,               \* index of the business type in the outer loop
    businesses,       \* result of the current search
    bi,               \* index of the business in the inner loop
    all_businesses,   \* the accumulator that is returned
    \* ---- search_businesses / get_place_details
    spc,              \* position of the search
    s_query,          \* argument: query term
    s_max,            \* argument: max_results of this call
    s_results,        \* data['results'] of the text search
    s_i,              \* index in the loop over the results
    s_businesses,     \* the list the search builds and returns
    s_outcome,        \* how the text-search call ended
    \* ---- extract_emails_from_website
    kpc,              \* position of the crawl
    website_url,      \* argument
    max_pages,        \* argument
    pages_to_check,   \* candidate list
    k_i,              \* index in the loop over the sliced candidate list
    pages_checked,    \* counter of the code
    emails,           \* accumulating set
    result,           \* value returned by the crawl
    \* ---- observations of the calls made (never read by the program)
    requests,         \* page URLs the current crawl sent a GET for
    sleeps,           \* 1-second sleeps of the current crawl
    emails_before,    \* the set as it was before the last page step
    details,          \* detail fetches of the current search, in order
    search_log,       \* searches the coordinator called
    returned,         \* records as the searches returned them, concatenated
    crawl_log         \* crawls the coordinator called

coord_vars  == <<cpc, business_types, max_results, ti, businesses, bi, all_businesses>>
search_vars == <<spc, s_query, s_max, s_results, s_i, s_businesses, s_outcome>>
crawl_vars  == <<kpc, website_url, max_pages, pages_to_check, k_i, pages_checked,
                 emails, result>>
crawl_obs   == <<requests, sleeps, emails_before>>
coord_obs   == <<search_log, returned, crawl_log>>
vars == <<entry, coord_vars, search_vars, crawl_vars, crawl_obs, details, coord_obs>>

(***************************************************************************)
(* Bounds of the model.                                                    *)
(***************************************************************************)
MaxPagesArg   == 6    \* max_pages ranges over -1 .. MaxPagesArg
MaxResultsArg == 3    \* max_results ranges over -1 .. MaxResultsArg
MaxTypes      == 2    \* business_types has 0 .. MaxTypes terms
MaxPlaces     == 3    \* a text search returns at most MaxPlaces places

Min(a, b) == IF a < b THEN a ELSE b
Max(a, b) == IF a > b THEN a ELSE b
Range(s)  == {s[i] : i \in DOMAIN s}

(***************************************************************************)
(* String operations the code uses.                                        *)
(***************************************************************************)
\* str.lower(), token by token
LowerTok(t) ==
    CASE t = "Info"      -> "info"
      [] t = "Biz.com"   -> "biz.com"
      [] t = "Gmail.com" -> "gmail.com"
      [] OTHER           -> t

Lower(s) == [i \in DOMAIN s |-> LowerTok(s[i])]

\* str.replace(tok, '')
RECURSIVE Remove(_, _)
Remove(s, tok) ==
    IF s = <<>> THEN <<>>
    ELSE IF Head(s) = tok THEN Remove(Tail(s), tok)
    ELSE <<Head(s)>> \o Remove(Tail(s), tok)

\* str.split(sep): the list of the pieces between the separators
RECURSIVE SplitAcc(_, _, _)
SplitAcc(s, sep, cur) ==
    IF s = <<>> THEN <<cur>>
    ELSE IF Head(s) = sep THEN <<cur>> \o SplitAcc(Tail(s), sep, <<>>)
    ELSE SplitAcc(Tail(s), sep, Append(cur, Head(s)))

Split(s, sep) == SplitAcc(s, sep, <<>>)

(***************************************************************************)
(* URLs.  urlparse gives the scheme (the token before '://') and the       *)
(* netloc (the tokens after '://' up to the path or query); it raises      *)
(* ValueError when the netloc holds one square bracket without the other.  *)
(***************************************************************************)
EmptyUrl    == <<>>
GoodUrl     == <<"http", "://", "a.biz", "/home", "?x=1">>
NoSchemeUrl == <<"a.biz">>
BracketUrl  == <<"http", "://", "[", "a.biz">>
Urls        == {EmptyUrl, GoodUrl, NoSchemeUrl, BracketUrl}

IsPathTok(t) == t \in {"/home", "?x=1", "/contact", "/contact-us", "/about", "/about-us"}

HasScheme(url) == Len(url) >= 2 /\ url[2] = "://"

RECURSIVE UpToPath(_)
UpToPath(s) ==
    IF s = <<>> \/ IsPathTok(Head(s)) THEN <<>>
    ELSE <<Head(s)>> \o UpToPath(Tail(s))

UrlScheme(url) == IF HasScheme(url) THEN <<url[1]>> ELSE <<>>
UrlNetloc(url) == IF HasScheme(url) THEN UpToPath(SubSeq(url, 3, Len(url))) ELSE <<>>

UrlParseRaises(url) ==
    ("[" \in Range(UrlNetloc(url))) # ("]" \in Range(UrlNetloc(url)))

BaseUrl(url) == UrlScheme(url) \o <<"://">> \o UrlNetloc(url)

\* urljoin(base_url, path) for an absolute path: the base's scheme and netloc
\* followed by the path; the bare path when the base has no scheme
UrlJoin(base, path) ==
    IF HasScheme(base)
    THEN UrlScheme(base) \o <<"://">> \o UrlNetloc(base) \o <<path>>
    ELSE <<path>>

ContactPaths == <<"/contact", "/contact-us", "/about", "/about-us">>

PagesToCheck(url) ==
    <<url>> \o [i \in 1..Len(ContactPaths) |-> UrlJoin(BaseUrl(url), ContactPaths[i])]

\* the loop running over the whole candidate list
PagesSliceAll(pages, n) == pages

\* pages_to_check[:max_pages], with Python's meaning of a negative bound
PagesSlice(pages, n) ==
    IF n >= 0 THEN SubSeq(pages, 1, Min(n, Len(pages)))
    ELSE SubSeq(pages, 1, Max(Len(pages) + n, 0))

(***************************************************************************)
(* Pages.  A response is a failure (timeout, connection error, non-success *)
(* status, or no request at all for a URL without scheme) or a page with   *)
(* the addresses the pattern finds in its text and the hrefs of its        *)
(* mailto: anchors.                                                        *)
(***************************************************************************)
FailPage == [ok |-> FALSE, text |-> <<>>, hrefs |-> <<>>]

Pages == {
    FailPage,
    \* nothing on the page
    [ok |-> TRUE, text |-> <<>>, hrefs |-> <<>>],
    \* mixed case, an excluded domain, a duplicate in a mailto: with a query
    [ok |-> TRUE,
     text  |-> << <<"Info", "@", "Biz.com">>, <<"bob", "@", "gmail.com">> >>,
     hrefs |-> << <<"mailto:", "info", "@", "biz.com", "?", "subject=hi">> >>],
    \* an address in the text, then a mailto: href without '@'
    [ok |-> TRUE,
     text  |-> << <<"info", "@", "biz.com">> >>,
     hrefs |-> << <<"mailto:", "contact">> >>],
    \* a mailto: href with two '@'
    [ok |-> TRUE, text |-> <<>>,
     hrefs |-> << <<"mailto:", "a", "@", "biz.com", "@", "Gmail.com">> >>],
    \* only a mailto: href without '@'
    [ok |-> TRUE, text |-> <<>>,
     hrefs |-> << <<"mailto:", "contact">> >>]
}

\* what session.get answers for a page URL
Responses(page_url) == IF HasScheme(page_url) THEN Pages ELSE {FailPage}

MailtoAddress(href) == Split(Remove(href, "mailto:"), "?")[1]

FoundEmails(page) ==
    page.text \o [i \in 1..Len(page.hrefs) |-> MailtoAddress(page.hrefs[i])]

excluded_domains ==
    {<<"example.com">>, <<"test.com">>, <<"gmail.com">>, <<"yahoo.com">>, <<"hotmail.com">>}

\* the domain the filter looks at: email.split('@')[1].lower()
FilterDomain(email) == Lower(Split(email, "@")[2])

\* the filter loop over found_emails; raised when an address has no '@'
\* (IndexError), with the addresses added before it left in the set
RECURSIVE FilterEmails(_, _)
FilterEmails(found, acc) ==
    IF found = <<>> THEN [emails |-> acc, raised |-> FALSE]
    ELSE LET email == Head(found) IN
         IF Len(Split(email, "@")) < 2 THEN [emails |-> acc, raised |-> TRUE]
         ELSE FilterEmails(Tail(found),
                  IF FilterDomain(email) \notin excluded_domains /\ Lower(email) \notin acc
                  THEN acc \cup {Lower(email)}
                  ELSE acc)

(***************************************************************************)
(* extract_emails_from_website                                             *)
(***************************************************************************)
\* lines 103-119: the empty-URL return and the candidate list
CrawlPrologue ==
    /\ kpc = "call"
    /\ requests' = <<>>
    /\ sleeps' = 0
    /\ emails_before' = {}
    /\ emails' = {}
    /\ pages_checked' = 0
    /\ k_i' = 1
    /\ IF website_url = EmptyUrl
       THEN /\ kpc' = "ret"
            /\ result' = {}
            /\ pages_to_check' = <<>>
       ELSE IF UrlParseRaises(website_url)
       THEN /\ kpc' = "raised"
            /\ pages_to_check' = <<website_url>>
            /\ UNCHANGED result
       ELSE /\ kpc' = "loop"
            /\ pages_to_check' = PagesToCheck(website_url)
            /\ UNCHANGED result
    /\ UNCHANGED <<website_url, max_pages>>
    /\ UNCHANGED <<entry, coord_vars, search_vars, details, coord_obs>>

CrawlLoopOpen ==
    /\ k_i <= Len(PagesSlice(pages_to_check, max_pages))
    /\ pages_checked < max_pages

\* lines 120-154: one candidate page
CrawlPage ==
    /\ kpc = "loop"
    /\ CrawlLoopOpen
    /\ LET page_url == PagesSlice(pages_to_check, max_pages)[k_i] IN
       \E page \in Responses(page_url) :
          LET f == FilterEmails(FoundEmails(page), emails) IN
          /\ emails_before' = emails
          /\ k_i' = k_i + 1
          /\ IF ~page.ok
             THEN /\ requests' = Append(requests, [url |-> page_url, outcome |-> "fetch_failed"])
                  /\ UNCHANGED <<emails, pages_checked, sleeps>>
             ELSE IF f.raised
             THEN /\ requests' = Append(requests, [url |-> page_url, outcome |-> "filter_failed"])
                  /\ emails' = f.emails
                  /\ UNCHANGED <<pages_checked, sleeps>>
             ELSE /\ requests' = Append(requests, [url |-> page_url, outcome |-> "ok"])
                  /\ emails' = f.emails
                  /\ pages_checked' = pages_checked + 1
                  /\ sleeps' = sleeps + 1
    /\ UNCHANGED <<kpc, website_url, max_pages, pages_to_check, result>>
    /\ UNCHANGED <<entry, coord_vars, search_vars, details, coord_obs>>

\* line 156: return list(emails)
CrawlReturn ==
    /\ kpc = "loop"
    /\ ~CrawlLoopOpen
    /\ kpc' = "ret"
    /\ result' = emails
    /\ UNCHANGED <<website_url, max_pages, pages_to_check, k_i, pages_checked, emails>>
    /\ UNCHANGED <<entry, coord_vars, search_vars, crawl_obs, details, coord_obs>>

(***************************************************************************)
(* The places API.  A text search answers with a transport failure, a      *)
(* status other than OK, or OK with the places of its first page; a detail *)
(* request answers with a transport failure, a status other than OK, or OK *)
(* with the fields the place has.                                          *)
(***************************************************************************)
PlaceIds == {"p1", "p2"}

RECURSIVE SeqsUpTo(_, _)
SeqsUpTo(S, n) ==
    IF n = 0 THEN {<<>>}
    ELSE SeqsUpTo(S, n - 1) \cup
         {Append(q, x) : q \in {r \in SeqsUpTo(S, n - 1) : Len(r) = n - 1}, x \in S}

SearchResponses ==
    {[http |-> "fail", status |-> "", results |-> <<>>],
     [http |-> "ok", status |-> "REQUEST_DENIED", results |-> <<"p1">>]}
    \cup {[http |-> "ok", status |-> "OK", results |-> r] : r \in SeqsUpTo(PlaceIds, MaxPlaces)}

DetailResponses(place_id) ==
    IF place_id = "p1"
    THEN {[http |-> "fail", status |-> "", result |-> [name |-> <<>>]],
          [http |-> "ok", status |-> "OK",
           result |-> [name |-> <<"A", "Law">>,
                       formatted_address |-> <<"1 Main St">>,
                       formatted_phone_number |-> <<"555">>,
                       website |-> GoodUrl,
                       types |-> << <<"lawyer">>, <<"finance">> >>]]}
    ELSE {[http |-> "ok", status |-> "NOT_FOUND", result |-> [name |-> <<>>]],
          [http |-> "ok", status |-> "OK", result |-> [name |-> <<"B", "Tax">>]],
          [http |-> "ok", status |-> "OK",
           result |-> [name |-> <<"C", "Co">>,
                       website |-> BracketUrl,
                       types |-> << <<"finance">> >>]]}

None == [none |-> TRUE]

\* dict.get(key, default)
Get(d, key, default) == IF key \in DOMAIN d THEN d[key] ELSE default

\* ', '.join(items)
RECURSIVE Join(_)
Join(items) ==
    IF items = <<>> THEN <<>>
    ELSE IF Len(items) = 1 THEN items[1]
    ELSE items[1] \o <<", ">> \o Join(Tail(items))

\* get_place_details, given the answer of the details endpoint
get_place_details(resp) ==
    IF resp.http = "ok" /\ resp.status = "OK"
    THEN [name           |-> Get(resp.result, "name", <<>>),
          address        |-> Get(resp.result, "formatted_address", <<>>),
          phone          |-> Get(resp.result, "formatted_phone_number", <<>>),
          website        |-> Get(resp.result, "website", <<>>),
          business_types |-> Join(Get(resp.result, "types", <<>>)),
          emails         |-> {}]
    ELSE None

(***************************************************************************)
(* search_businesses                                                       *)
(***************************************************************************)
\* the status test of line 44 left out
SearchProceedsAnyStatus(resp) == resp.http = "ok"

\* the text search went through and its status is OK (lines 40-49)
SearchProceeds(resp) == resp.http = "ok" /\ resp.status = "OK"

\* lines 40-49: the text-search call
SearchCall ==
    /\ spc = "call"
    /\ \E resp \in SearchResponses :
          /\ s_outcome' = IF resp.http = "ok" THEN resp.status ELSE "transport"
          /\ IF SearchProceeds(resp)
             THEN /\ spc' = "loop"
                  /\ s_results' = resp.results
             ELSE /\ spc' = "ret"
                  /\ s_results' = <<>>
    /\ s_businesses' = <<>>
    /\ s_i' = 1
    /\ details' = <<>>
    /\ UNCHANGED <<s_query, s_max>>
    /\ UNCHANGED <<entry, coord_vars, crawl_vars, crawl_obs, coord_obs>>

\* the cap test with > for >=
CapReachedStrict(found, cap) == Len(found) > cap

\* line 53: the cap test at the head of the loop body
CapReached(found, cap) == Len(found) >= cap

SearchLoopOpen == s_i <= Len(s_results) /\ ~CapReached(s_businesses, s_max)

\* lines 52-61: one place of the results
SearchDetail ==
    /\ spc = "loop"
    /\ SearchLoopOpen
    /\ \E resp \in DetailResponses(s_results[s_i]) :
          LET business_info == get_place_details(resp) IN
          /\ details' = Append(details, [place_id |-> s_results[s_i], info |-> business_info])
          /\ s_businesses' = IF business_info # None
                             THEN Append(s_businesses, business_info)
                             ELSE s_businesses
    /\ s_i' = s_i + 1
    /\ UNCHANGED <<spc, s_query, s_max, s_results, s_outcome>>
    /\ UNCHANGED <<entry, coord_vars, crawl_vars, crawl_obs, coord_obs>>

\* line 66: return businesses
SearchReturn ==
    /\ spc = "loop"
    /\ ~SearchLoopOpen
    /\ spc' = "ret"
    /\ UNCHANGED <<s_query, s_max, s_results, s_i, s_businesses, s_outcome>>
    /\ UNCHANGED <<entry, coord_vars, crawl_vars, crawl_obs, details, coord_obs>>

(***************************************************************************)
(* scrape_business_contacts                                                *)
(***************************************************************************)
\* every type given the whole of max_results
PerTypeCapWhole(total, n) == total

\* line 166: max_results // len(business_types)
PerTypeCap(total, n) == total \div n

\* line 166: the search call for the next business type
CoordSearch ==
    /\ cpc = "types"
    /\ ti <= Len(business_types)
    /\ cpc' = "search"
    /\ spc' = "call"
    /\ s_query' = business_types[ti]
    /\ s_max' = PerTypeCap(max_results, Len(business_types))
    /\ search_log' = Append(search_log,
                        [query |-> business_types[ti],
                         cap   |-> PerTypeCap(max_results, Len(business_types)),
                         outcome |-> "pending"])
    /\ UNCHANGED <<business_types, max_results, ti, businesses, bi, all_businesses>>
    /\ UNCHANGED <<s_results, s_i, s_businesses, s_outcome>>
    /\ UNCHANGED <<entry, crawl_vars, crawl_obs, details, returned, crawl_log>>

\* line 166: the search has returned
CoordSearchReturned ==
    /\ cpc = "search"
    /\ spc = "ret"
    /\ spc' = "idle"
    /\ cpc' = "process"
    /\ businesses' = s_businesses
    /\ bi' = 1
    /\ returned' = returned \o s_businesses
    /\ search_log' = [search_log EXCEPT ![Len(search_log)].outcome = s_outcome]
    \* the frame of the search is gone
    /\ s_query' = "" /\ s_max' = 0 /\ s_results' = <<>> /\ s_i' = 1
    /\ s_businesses' = <<>> /\ s_outcome' = "" /\ details' = <<>>
    /\ UNCHANGED <<business_types, max_results, ti, all_businesses>>
    /\ UNCHANGED <<entry, crawl_vars, crawl_obs, crawl_log>>

\* the website test left out
NeedsCrawlAlways(business) == TRUE

\* line 172: if business['website']
NeedsCrawl(business) == business.website # <<>>

\* a record equal to one already accumulated left out
AccumulateUnique(all, business) ==
    IF business \in Range(all) THEN all ELSE Append(all, business)

\* line 179: all_businesses.append(business)
Accumulate(all, business) == Append(all, business)

\* lines 168-179: one business; with a website the crawl is called first
CoordBusiness ==
    /\ cpc = "process"
    /\ bi <= Len(businesses)
    /\ IF NeedsCrawl(businesses[bi])
       THEN /\ cpc' = "crawl"
            /\ kpc' = "call"
            /\ website_url' = businesses[bi].website
            /\ max_pages' = 3
            /\ crawl_log' = Append(crawl_log,
                               [url |-> businesses[bi].website, done |-> FALSE, emails |-> {}])
            /\ UNCHANGED <<bi, all_businesses>>
       ELSE /\ all_businesses' = Accumulate(all_businesses, businesses[bi])
            /\ bi' = bi + 1
            /\ UNCHANGED <<cpc, kpc, website_url, max_pages, crawl_log>>
    /\ UNCHANGED <<business_types, max_results, ti, businesses>>
    /\ UNCHANGED <<pages_to_check, k_i, pages_checked, emails, result>>
    /\ UNCHANGED <<entry, search_vars, crawl_obs, details, search_log, returned>>

\* lines 173-179: the crawl has returned
CoordCrawlReturned ==
    /\ cpc = "crawl"
    /\ kpc = "ret"
    /\ kpc' = "idle"
    /\ cpc' = "process"
    /\ all_businesses' =
          Accumulate(all_businesses, [businesses[bi] EXCEPT !.emails = result])
    /\ businesses' = [businesses EXCEPT ![bi].emails = result]
    /\ bi' = bi + 1
    /\ crawl_log' = [crawl_log EXCEPT ![Len(crawl_log)] =
                        [url |-> website_url, done |-> TRUE, emails |-> result]]
    \* the frame of the crawl is gone
    /\ website_url' = <<>> /\ max_pages' = 0 /\ pages_to_check' = <<>> /\ k_i' = 1
    /\ pages_checked' = 0 /\ emails' = {} /\ result' = {}
    /\ requests' = <<>> /\ sleeps' = 0 /\ emails_before' = {}
    /\ UNCHANGED <<business_types, max_results, ti>>
    /\ UNCHANGED <<entry, search_vars, details, search_log, returned>>

\* line 173: the crawl raised; nothing in the coordinator catches it
CoordCrawlRaised ==
    /\ cpc = "crawl"
    /\ kpc = "raised"
    /\ cpc' = "raised"
    /\ UNCHANGED <<business_types, max_results, ti, businesses, bi, all_businesses>>
    /\ UNCHANGED <<entry, search_vars, crawl_vars, crawl_obs, details, coord_obs>>

\* line 164: the inner loop is over, on to the next business type
CoordNextType ==
    /\ cpc = "process"
    /\ bi > Len(businesses)
    /\ cpc' = "types"
    /\ ti' = ti + 1
    /\ UNCHANGED <<business_types, max_results, businesses, bi, all_businesses>>
    /\ UNCHANGED <<entry, search_vars, crawl_vars, crawl_obs, details, coord_obs>>

\* line 184: return all_businesses
CoordReturn ==
    /\ cpc = "types"
    /\ ti > Len(business_types)
    /\ cpc' = "done"
    /\ UNCHANGED <<business_types, max_results, ti, businesses, bi, all_businesses>>
    /\ UNCHANGED <<entry, search_vars, crawl_vars, crawl_obs, details, coord_obs>>

(***************************************************************************)
(* The caller invokes one of the three methods with arguments of its       *)
(* choice.                                                                 *)
(***************************************************************************)
\* the configuration of main (lines 207-214); the caller's list of types is a
\* prefix of BUSINESS_TYPES, of 0 .. MaxTypes terms
BUSINESS_TYPES ==
    <<"marketing agency", "law firm", "accounting firm", "consulting firm",
      "real estate agency">>

MAX_RESULTS == 20

Init ==
    /\ entry \in {"scrape", "search", "crawl"}
    /\ requests = <<>> /\ sleeps = 0 /\ emails_before = {}
    /\ details = <<>> /\ search_log = <<>> /\ returned = <<>> /\ crawl_log = <<>>
    /\ ti = 1 /\ businesses = <<>> /\ bi = 1 /\ all_businesses = <<>>
    /\ s_results = <<>> /\ s_i = 1 /\ s_businesses = <<>> /\ s_outcome = ""
    /\ pages_to_check = <<>> /\ k_i = 1 /\ pages_checked = 0 /\ emails = {} /\ result = {}
    /\ IF entry = "scrape"
       THEN /\ cpc = "types"
            /\ business_types \in {SubSeq(BUSINESS_TYPES, 1, n) : n \in 0..MaxTypes}
            /\ max_results \in -1..MaxResultsArg
       ELSE cpc = "idle" /\ business_types = <<>> /\ max_results = 0
    /\ IF entry = "search"
       THEN /\ spc = "call"
            /\ s_query \in {BUSINESS_TYPES[1]}
            /\ s_max \in -1..MaxResultsArg
       ELSE spc = "idle" /\ s_query = "" /\ s_max = 0
    /\ IF entry = "crawl"
       THEN /\ kpc = "call"
            /\ website_url \in Urls
            /\ max_pages \in -1..MaxPagesArg
       ELSE kpc = "idle" /\ website_url = <<>> /\ max_pages = 0

Next ==
    \/ CrawlPrologue
    \/ CrawlPage
    \/ CrawlReturn
    \/ SearchCall
    \/ SearchDetail
    \/ SearchReturn
    \/ CoordSearch
    \/ CoordSearchReturned
    \/ CoordBusiness
    \/ CoordCrawlReturned
    \/ CoordCrawlRaised
    \/ CoordNextType
    \/ CoordReturn

Spec == Init /\ [][Next]_vars

(***************************************************************************)
(* Properties.                                                             *)
(***************************************************************************)
CrawlRunning == kpc \in {"loop", "ret", "raised"}
RequestUrls  == [i \in 1..Len(requests) |-> requests[i].url]
HasWebsite(b) == b.website # <<>>
IsDone(c)     == c.done
IsPresent(d)  == d.info # None
Infos(ds)     == [i \in 1..Len(ds) |-> ds[i].info]
Present(ds)   == Infos(SelectSeq(ds, IsPresent))
LastPiece(s, sep) == Split(s, sep)[Len(Split(s, sep))]

\* C1: one call of extract_emails_from_website sends at most max_pages GET
\* requests, failed attempts included (none when max_pages is negative), and
\* none at all when the URL is empty.
C1_RequestCap ==
    CrawlRunning =>
        /\ Len(requests) <= Max(max_pages, 0)
        /\ website_url = EmptyUrl => requests = <<>>

\* a crawl that returned after max_pages requests of which one failed
C1_Witness ==
    /\ kpc = "ret"
    /\ max_pages = 3
    /\ Len(requests) = 3
    /\ \E i \in 1..Len(requests) : requests[i].outcome = "fetch_failed"
    /\ \E i \in 1..Len(requests) : requests[i].outcome = "ok"

\* C2: every address the crawl returns is lowercase and its domain, the part
\* after its last '@', is none of the excluded domains (the result holds each
\* address once).
C2_ReturnedAddresses ==
    kpc = "ret" =>
        \A e \in result :
            /\ Lower(e) = e
            /\ LastPiece(e, "@") \notin excluded_domains

\* C3: for a non-empty URL all of whose pages fail at the fetch, the crawl
\* raises nothing and what it returns is empty.
C3_AllPagesFail ==
    (/\ CrawlRunning
     /\ website_url # EmptyUrl
     /\ \A i \in 1..Len(requests) : requests[i].outcome = "fetch_failed")
    => /\ kpc # "raised"
       /\ kpc = "ret" => result = {}

\* C4: every attempted page, failed or not, is followed by the 1-second sleep
\* before the next page is requested or the crawl returns.
C4_DelayAfterEveryPage ==
    CrawlRunning => sleeps = Len(requests)

\* C5: search_businesses fetches the details of the places in API order,
\* returns the records of the fetches that were not absent, at most
\* max_results of them when max_results >= 0, and fetches nothing once
\* max_results records are accumulated.
C5_SearchCap ==
    /\ s_max >= 0 => Len(s_businesses) <= s_max
    /\ Len(details) = s_i - 1
    /\ \A j \in 1..Len(details) : details[j].place_id = s_results[j]
    /\ s_businesses = Present(details)
    /\ \A j \in 1..Len(details) : Len(Present(SubSeq(details, 1, j - 1))) < s_max

\* a search that returned with the cap reached after an absent place was
\* skipped, a place left unfetched
C5_Witness ==
    /\ spc = "ret"
    /\ s_max >= 1
    /\ Len(s_businesses) = s_max
    /\ s_i <= Len(s_results)
    /\ \E j \in 1..Len(details) : details[j].info = None

\* C6: the coordinator calls the search for the business types in input
\* order, once per type when it returns, each with the cap
\* floor(max_results / n); 20 and 22 over 5 types both give 4.
C6_PerTypeCap ==
    /\ Len(search_log) <= Len(business_types)
    /\ \A i \in 1..Len(search_log) :
          /\ search_log[i].query = business_types[i]
          /\ search_log[i].cap * Len(business_types) <= max_results
          /\ max_results < (search_log[i].cap + 1) * Len(business_types)
    /\ cpc = "done" => Len(search_log) = Len(business_types)
    /\ PerTypeCap(MAX_RESULTS, Len(BUSINESS_TYPES)) = 4
    /\ PerTypeCap(22, 5) = 4

\* a finished scrape of two types with a remainder dropped
C6_Witness ==
    /\ cpc = "done"
    /\ Len(business_types) = 2
    /\ max_results = 3
    /\ Len(search_log) = 2
    /\ search_log[2].cap = 1

\* C7: a record with a website has as emails the result of the one crawl of
\* that website, a record without a website has no emails and caused no
\* crawl, and no other field differs from what the search returned.
C7_EmailsFromOneCrawl ==
    LET crawled  == SelectSeq(all_businesses, HasWebsite)
        finished == SelectSeq(crawl_log, IsDone)
    IN  /\ Len(all_businesses) <= Len(returned)
        /\ \A j \in 1..Len(all_businesses) :
              /\ all_businesses[j] =
                    [returned[j] EXCEPT !.emails = all_businesses[j].emails]
              /\ ~HasWebsite(all_businesses[j]) => all_businesses[j].emails = {}
        /\ Len(crawled) = Len(finished)
        /\ \A k \in 1..Len(crawled) :
              /\ finished[k].url = crawled[k].website
              /\ finished[k].emails = crawled[k].emails
        /\ \A k \in 1..Len(crawl_log) : crawl_log[k].url # <<>>
        /\ Len(crawl_log) <= Len(finished) + 1

\* a finished scrape with a crawled record that got addresses and a record
\* without a website
C7_Witness ==
    /\ cpc = "done"
    /\ Len(all_businesses) = 2
    /\ HasWebsite(all_businesses[1])
    /\ all_businesses[1].emails # {}
    /\ ~HasWebsite(all_businesses[2])

\* C8: a text search that fails in transport or answers a status other than
\* OK returns an empty list after no detail fetch, and the coordinator goes
\* on: it never stops after such a search and has searched every type when
\* it returns.
C8_FailedSearch ==
    /\ (spc \in {"loop", "ret"} /\ s_outcome # "OK") =>
          /\ spc = "ret"
          /\ s_businesses = <<>>
          /\ details = <<>>
    /\ \A i \in 1..Len(search_log) :
          (search_log[i].outcome \notin {"OK", "pending"} /\ i = Len(search_log)) =>
              /\ businesses = <<>>
              /\ cpc \in {"process", "types", "done"}
    /\ cpc = "done" => Len(search_log) = Len(business_types)

\* a finished scrape whose first search failed and whose second gave a record
C8_Witness ==
    /\ cpc = "done"
    /\ Len(search_log) = 2
    /\ search_log[1].outcome = "transport"
    /\ search_log[2].outcome = "OK"
    /\ all_businesses # <<>>

\* C9: what the coordinator returns is the concatenation, in type order, of
\* the search results in their order: nothing dropped, reordered or
\* deduplicated.
C9_Concatenation ==
    /\ Len(all_businesses) <= Len(returned)
    /\ \A j \in 1..Len(all_businesses) :
          [all_businesses[j] EXCEPT !.emails = {}] = returned[j]
    /\ cpc \in {"types", "done"} => Len(all_businesses) = Len(returned)

\* a finished scrape of two types that both gave the same record
C9_Witness ==
    /\ cpc = "done"
    /\ Len(search_log) = 2
    /\ Len(all_businesses) = 2
    /\ all_businesses[1] = all_businesses[2]

\* C10: a page whose processing fails adds no address and removes none, and
\* the crawl still goes through every candidate of the sliced list in order.
C10_FailedPageSkipped ==
    kpc \in {"loop", "ret"} =>
        /\ emails_before \subseteq emails
        /\ (requests # <<>> /\ requests[Len(requests)].outcome # "ok") =>
              emails = emails_before
        /\ (kpc = "ret" /\ max_pages > 0 /\ website_url # EmptyUrl) =>
              RequestUrls = PagesSlice(pages_to_check, max_pages)

====
